---- MODULE Spec2Model ----
(***************************************************************************)
(* Model of jsonrpc/jsonrpc.go: StartJSONRPC (the startup sequence and the *)
(* lifecycle task it hands to the errgroup), listen (the optionally        *)
(* limited listener) and ConnectCometWS (the upstream websocket client).   *)
(*                                                                         *)
(* Goroutines are processes with a position (startPc, taskPc, servePc).    *)
(* errCh is an unbuffered channel: a send and the receive of the select    *)
(* are one rendezvous step.  A Go select with several ready cases picks    *)
(* any of them, so both branches are enabled when both are ready.          *)
(***************************************************************************)
EXTENDS Naturals, FiniteSets, Sequences, TLC

\* ------------------------------------------------------------------ bounds
\* largest configured MaxOpenConnections explored (0 = unlimited)
MaxCap == 2
\* clients that may wait in the listener's backlog at once
MaxPending == 2
\* calls of StartJSONRPC explored in one run
MaxStarts == 2
\* open connections explored on a listener (above every explored cap)
MaxConns == MaxCap + 1

\* ------------------------------------------------------------- constants
\* the entries of the apis slice: eth, eth (filters), net
NumApis == 3

VARIABLES
    cfgMaxOpen,       \* jsonRPCConfig.MaxOpenConnections
    calls,            \* calls of StartJSONRPC made so far
    prevTerminal,     \* an earlier call's server reached Stopped or FailedToStart
    startPc,          \* position of the current StartJSONRPC call
    startResult,      \* what StartJSONRPC returned ("none" while it runs)
    cometWsClient,    \* "none" | "nil" | "unstarted" | "running"
    apiIdx,           \* index of the range loop over apis
    registered,       \* entries of apis registered on rpcServer
    handlerInstalled, \* rpcServer.ServeHTTP sits behind the router / httpSrv
    ln,               \* the listener: "none" | "open" | "closed"
    limited,          \* ln is wrapped by netutil.LimitListener
    ctxDone,          \* ctx.Done() is closed
    taskPc,           \* the function given to g.Go
    taskBranch,       \* the select case taken: "none" | "ctx" | "err"
    taskResult,       \* what the task returned to the errgroup
    ctxAtSelect,      \* ctx was cancelled when the select took its case
    inShutdown,       \* httpSrv.inShutdown
    tracked,          \* Serve has registered ln with httpSrv
    closeCalled,      \* httpSrv.Close() was called
    closeResult,      \* what httpSrv.Close() returned
    servePc,          \* the goroutine running httpSrv.Serve(ln)
    serveResult,      \* what httpSrv.Serve(ln) returned
    pending,          \* clients connected but not yet accepted
    open,             \* accepted connections not yet closed
    sem               \* slots of the LimitListener in use

vars == <<cfgMaxOpen, calls, prevTerminal, startPc, startResult, cometWsClient,
          apiIdx, registered, handlerInstalled, ln, limited, ctxDone, taskPc,
          taskBranch, taskResult, ctxAtSelect, inShutdown, tracked,
          closeCalled, closeResult, servePc, serveResult, pending, open, sem>>

callVars == <<startPc, startResult, cometWsClient, apiIdx, registered, handlerInstalled>>
lnVars == <<ln, limited>>
taskVars == <<taskPc, taskBranch, taskResult, ctxAtSelect>>
srvVars == <<inShutdown, tracked, closeCalled, closeResult>>
serveVars == <<servePc, serveResult>>
connVars == <<pending, open, sem>>
envVars == <<cfgMaxOpen, calls, prevTerminal>>

\* ------------------------------------------------------- pure functions

\* ConnectCometWS: nil only when NewWS fails; an OnStart failure is logged
\* and the client is returned all the same.
ConnectCometWS(newWSOk, onStartOk) ==
    IF ~newWSOk THEN "nil"
    ELSE IF ~onStartOk THEN "unstarted"
    ELSE "running"

\* listen: net.Listen, then the LimitListener when MaxOpenConnections > 0.
\* (listenUnlimited: the same without the LimitListener;
\*  listenAlwaysLimited: the LimitListener also for a cap of 0)
listenAlwaysLimited(bindOk, maxOpen) ==
    IF ~bindOk
    THEN [ln |-> "none", limited |-> FALSE, err |-> "ErrBind"]
    ELSE [ln |-> "open", limited |-> TRUE, err |-> "nil"]
listenUnlimited(bindOk, maxOpen) ==
    IF ~bindOk
    THEN [ln |-> "none", limited |-> FALSE, err |-> "ErrBind"]
    ELSE [ln |-> "open", limited |-> FALSE, err |-> "nil"]
listen(bindOk, maxOpen) ==
    IF ~bindOk
    THEN [ln |-> "none", limited |-> FALSE, err |-> "ErrBind"]
    ELSE [ln |-> "open", limited |-> maxOpen > 0, err |-> "nil"]

\* ServerRunState of the spec, read off the positions of the code.
RunState ==
    IF startResult = "ErrBind" THEN "FailedToStart"
    ELSE IF taskPc = "returned"
         THEN (IF taskBranch = "ctx" THEN "Stopped" ELSE "FailedToStart")
    ELSE IF taskPc = "closing" THEN "ShuttingDown"
    ELSE IF taskPc \in {"start", "select"} THEN "Running"
    ELSE IF ln = "open" THEN "Listening"
    ELSE "Initializing"

Terminal == RunState \in {"Stopped", "FailedToStart"}

\* --------------------------------------------------------------- Init
Init ==
    /\ cfgMaxOpen \in 0..MaxCap
    /\ calls = 1
    /\ prevTerminal = FALSE
    /\ startPc = "connect"
    /\ startResult = "none"
    /\ cometWsClient = "none"
    /\ apiIdx = 0
    /\ registered = 0
    /\ handlerInstalled = FALSE
    /\ ln = "none"
    /\ limited = FALSE
    /\ ctxDone = FALSE
    /\ taskPc = "none"
    /\ taskBranch = "none"
    /\ taskResult = "none"
    /\ ctxAtSelect = FALSE
    /\ inShutdown = FALSE
    /\ tracked = FALSE
    /\ closeCalled = FALSE
    /\ closeResult = "none"
    /\ servePc = "none"
    /\ serveResult = "none"
    /\ pending = 0
    /\ open = 0
    /\ sem = 0

\* ------------------------------------------------- StartJSONRPC, in order

\* (StartConnectStrict: give up as well on a client that did not start)
StartConnectStrict ==
    /\ startPc = "connect"
    /\ \E newWSOk \in BOOLEAN, onStartOk \in BOOLEAN :
         LET c == ConnectCometWS(newWSOk, onStartOk) IN
         /\ cometWsClient' = c
         /\ IF c # "running"
            THEN startPc' = "returned" /\ startResult' = "ErrConnect"
            ELSE startPc' = "register" /\ startResult' = startResult
    /\ UNCHANGED <<apiIdx, registered, handlerInstalled>>
    /\ UNCHANGED <<lnVars, ctxDone, taskVars, srvVars, serveVars, connVars, envVars>>

\* lines 57-60: connect the upstream client, give up on a nil client
StartConnect ==
    /\ startPc = "connect"
    /\ \E newWSOk \in BOOLEAN, onStartOk \in BOOLEAN :
         LET c == ConnectCometWS(newWSOk, onStartOk) IN
         /\ cometWsClient' = c
         /\ IF c = "nil"
            THEN startPc' = "returned" /\ startResult' = "ErrConnect"
            ELSE startPc' = "register" /\ startResult' = startResult
    /\ UNCHANGED <<apiIdx, registered, handlerInstalled>>
    /\ UNCHANGED <<lnVars, ctxDone, taskVars, srvVars, serveVars, connVars, envVars>>

\* position after one RegisterName of the loop in lines 95-104
\* (RegisterNextSwallow: the loop goes on after an error)
RegisterNextSwallow(err, i) == IF i + 1 = NumApis THEN "install" ELSE "register"
RegisterNext(err, i) ==
    IF err THEN "returned"
    ELSE IF i + 1 = NumApis THEN "install" ELSE "register"

\* lines 95-104: one iteration of the registration loop
StartRegister ==
    /\ startPc = "register"
    /\ \E err \in BOOLEAN :
         /\ startPc' = RegisterNext(err, apiIdx)
         /\ startResult' = IF err THEN "ErrRegister" ELSE startResult
         /\ registered' = IF err THEN registered ELSE registered + 1
         /\ apiIdx' = IF RegisterNext(err, apiIdx) = "returned" THEN apiIdx ELSE apiIdx + 1
    /\ UNCHANGED <<cometWsClient, handlerInstalled>>
    /\ UNCHANGED <<lnVars, ctxDone, taskVars, srvVars, serveVars, connVars, envVars>>

\* lines 106-121: router, CORS wrapper and httpSrv around rpcServer
StartInstall ==
    /\ startPc = "install"
    /\ handlerInstalled' = TRUE
    /\ startPc' = "listen"
    /\ UNCHANGED <<startResult, cometWsClient, apiIdx, registered>>
    /\ UNCHANGED <<lnVars, ctxDone, taskVars, srvVars, serveVars, connVars, envVars>>

\* position after listen, lines 125-127
\* (ListenNextSwallow: the error of listen is not checked)
ListenNextSwallow(err) == "go"
ListenNext(err) == IF err # "nil" THEN "returned" ELSE "go"

\* (StartListenStopsClient: a bind failure stops the upstream client)
StartListenStopsClient ==
    /\ startPc = "listen"
    /\ \E bindOk \in BOOLEAN :
         LET r == listen(bindOk, cfgMaxOpen) IN
         /\ ln' = r.ln
         /\ limited' = r.limited
         /\ startPc' = ListenNext(r.err)
         /\ startResult' = IF r.err # "nil" THEN r.err ELSE startResult
         /\ cometWsClient' = IF r.err # "nil" THEN "stopped" ELSE cometWsClient
    /\ UNCHANGED <<apiIdx, registered, handlerInstalled>>
    /\ UNCHANGED <<ctxDone, taskVars, srvVars, serveVars, connVars, envVars>>

\* lines 124-127: bind the address
StartListen ==
    /\ startPc = "listen"
    /\ \E bindOk \in BOOLEAN :
         LET r == listen(bindOk, cfgMaxOpen) IN
         /\ ln' = r.ln
         /\ limited' = r.limited
         /\ startPc' = ListenNext(r.err)
         /\ startResult' = IF r.err # "nil" THEN r.err ELSE startResult
    /\ UNCHANGED <<cometWsClient, apiIdx, registered, handlerInstalled>>
    /\ UNCHANGED <<ctxDone, taskVars, srvVars, serveVars, connVars, envVars>>

\* (StartGoWaits: the call waits for the task and returns its result)
StartGoWaits ==
    /\ startPc = "go"
    /\ IF taskPc = "none"
       THEN /\ taskPc' = "start"
            /\ UNCHANGED <<startPc, startResult>>
       ELSE /\ taskPc = "returned"
            /\ startPc' = "returned"
            /\ startResult' = taskResult
            /\ UNCHANGED taskPc
    /\ UNCHANGED <<cometWsClient, apiIdx, registered, handlerInstalled>>
    /\ UNCHANGED <<taskBranch, taskResult, ctxAtSelect>>
    /\ UNCHANGED <<lnVars, ctxDone, srvVars, serveVars, connVars, envVars>>

\* lines 129 and 152: hand the lifecycle task to the errgroup, return nil
StartGo ==
    /\ startPc = "go"
    /\ taskPc' = "start"
    /\ startPc' = "returned"
    /\ startResult' = "nil"
    /\ UNCHANGED <<cometWsClient, apiIdx, registered, handlerInstalled>>
    /\ UNCHANGED <<taskBranch, taskResult, ctxAtSelect>>
    /\ UNCHANGED <<lnVars, ctxDone, srvVars, serveVars, connVars, envVars>>

\* A later call of StartJSONRPC.  The function keeps no state between
\* calls: everything it works on is local, so a new call starts afresh.
\* Explored once the earlier server is terminal and its work has settled
\* (a serve goroutine left blocked on errCh stays blocked and is dropped
\* from the state).
StartAgain ==
    /\ calls < MaxStarts
    /\ startPc = "returned"
    /\ Terminal
    /\ servePc \in {"none", "done", "send"}
    /\ open = 0
    /\ calls' = calls + 1
    /\ prevTerminal' = TRUE
    /\ startPc' = "connect"
    /\ startResult' = "none"
    /\ cometWsClient' = "none"
    /\ apiIdx' = 0
    /\ registered' = 0
    /\ handlerInstalled' = FALSE
    /\ ln' = "none"
    /\ limited' = FALSE
    /\ ctxDone' \in {ctxDone, FALSE}
    /\ taskPc' = "none"
    /\ taskBranch' = "none"
    /\ taskResult' = "none"
    /\ ctxAtSelect' = FALSE
    /\ inShutdown' = FALSE
    /\ tracked' = FALSE
    /\ closeCalled' = FALSE
    /\ closeResult' = "none"
    /\ servePc' = "none"
    /\ serveResult' = "none"
    /\ pending' = 0
    /\ sem' = 0
    /\ UNCHANGED <<cfgMaxOpen, open>>

\* the caller cancels ctx
Cancel ==
    /\ ~ctxDone
    /\ ctxDone' = TRUE
    /\ UNCHANGED <<callVars, lnVars, taskVars, srvVars, serveVars, connVars, envVars>>

\* ------------------------------------------------- the lifecycle task

\* lines 130-135: make errCh and start the goroutine that runs Serve
TaskStart ==
    /\ taskPc = "start"
    /\ taskPc' = "select"
    /\ servePc' = "start"
    /\ UNCHANGED <<taskBranch, taskResult, ctxAtSelect, serveResult>>
    /\ UNCHANGED <<callVars, lnVars, ctxDone, srvVars, connVars, envVars>>

\* case <-ctx.Done() is ready
\* (CtxNeverReady: a select without the cancellation case)
CtxNeverReady == FALSE
CtxReady == ctxDone

\* case err := <-errCh is ready: the serve goroutine waits to send
\* (ErrChAlwaysReady: a channel that yields without that sender)
ErrChAlwaysReady == TRUE
ErrChReady == servePc = "send"

\* lines 140-143: the select takes the cancellation case
TaskSelectCtx ==
    /\ taskPc = "select"
    /\ CtxReady
    /\ taskPc' = "closing"
    /\ taskBranch' = "ctx"
    /\ ctxAtSelect' = TRUE
    /\ UNCHANGED taskResult
    /\ UNCHANGED <<callVars, lnVars, ctxDone, srvVars, serveVars, connVars, envVars>>

\* httpSrv.Close() on the listener: only a listener that Serve has
\* registered is closed, and only then can closing fail.
\* (httpSrvCloseKeepsListener: a close that leaves the listener open)
httpSrvCloseKeepsListener(isTracked, lnState, closeErr) ==
    [ln |-> lnState, result |-> "nil"]
httpSrvClose(isTracked, lnState, closeErr) ==
    IF isTracked /\ lnState = "open"
    THEN [ln |-> "closed", result |-> IF closeErr THEN "ErrClose" ELSE "nil"]
    ELSE [ln |-> lnState, result |-> "nil"]

\* (TaskCloseStopsClient: the cancellation case also stops the upstream
\* client)
TaskCloseStopsClient ==
    /\ taskPc = "closing"
    /\ \E closeErr \in BOOLEAN :
         LET r == httpSrvClose(tracked, ln, closeErr) IN
         /\ ln' = r.ln
         /\ closeResult' = r.result
         /\ taskResult' = r.result
         /\ pending' = IF r.ln = "closed" THEN 0 ELSE pending
    /\ inShutdown' = TRUE
    /\ closeCalled' = TRUE
    /\ open' = 0
    /\ sem' = IF limited THEN sem - open ELSE sem
    /\ taskPc' = "returned"
    /\ cometWsClient' = "stopped"
    /\ UNCHANGED <<taskBranch, ctxAtSelect, tracked, limited>>
    /\ UNCHANGED <<startPc, startResult, apiIdx, registered, handlerInstalled>>
    /\ UNCHANGED <<ctxDone, serveVars, envVars>>

\* line 144: return httpSrv.Close().  Close marks the server as shutting
\* down, closes the registered listener and every accepted connection.
TaskClose ==
    /\ taskPc = "closing"
    /\ \E closeErr \in BOOLEAN :
         LET r == httpSrvClose(tracked, ln, closeErr) IN
         /\ ln' = r.ln
         /\ closeResult' = r.result
         /\ taskResult' = r.result
         /\ pending' = IF r.ln = "closed" THEN 0 ELSE pending
    /\ inShutdown' = TRUE
    /\ closeCalled' = TRUE
    /\ open' = 0
    /\ sem' = IF limited THEN sem - open ELSE sem
    /\ taskPc' = "returned"
    /\ UNCHANGED <<taskBranch, ctxAtSelect, tracked, limited>>
    /\ UNCHANGED <<callVars, ctxDone, serveVars, envVars>>

\* what the err case returns, line 148
\* (ErrBranchResultNil: the error is logged and nil returned)
ErrBranchResultNil(err) == "nil"
ErrBranchResult(err) == err

\* lines 146-148: the select receives the result of Serve from errCh
\* (the rendezvous also completes the send of line 134)
TaskSelectErr ==
    /\ taskPc = "select"
    /\ ErrChReady
    /\ taskBranch' = "err"
    /\ taskResult' = ErrBranchResult(serveResult)
    /\ ctxAtSelect' = ctxDone
    /\ taskPc' = "returned"
    /\ servePc' = "done"
    /\ UNCHANGED serveResult
    /\ UNCHANGED <<callVars, lnVars, ctxDone, srvVars, connVars, envVars>>

\* ------------------------------------------- the goroutine of line 132

\* line 134, entering httpSrv.Serve(ln): a server already shut down
\* refuses the listener, closes it and returns ErrServerClosed; otherwise
\* the listener is registered and the accept loop starts.
ServeEnter ==
    /\ servePc = "start"
    /\ IF inShutdown
       THEN /\ serveResult' = "ErrServerClosed"
            /\ ln' = "closed"
            /\ pending' = 0
            /\ servePc' = "send"
            /\ UNCHANGED tracked
       ELSE /\ tracked' = TRUE
            /\ servePc' = IF limited THEN "acquire" ELSE "accept"
            /\ UNCHANGED <<serveResult, ln, pending>>
    /\ UNCHANGED <<limited, inShutdown, closeCalled, closeResult, open, sem>>
    /\ UNCHANGED <<callVars, ctxDone, taskVars, envVars>>

\* Accept of the LimitListener: take a slot, blocking while all are taken
AcceptAcquire ==
    /\ servePc = "acquire"
    /\ ln = "open"
    /\ sem < cfgMaxOpen
    /\ sem' = sem + 1
    /\ servePc' = "accept"
    /\ UNCHANGED <<serveResult, pending, open>>
    /\ UNCHANGED <<callVars, lnVars, ctxDone, taskVars, srvVars, envVars>>

\* Accept of the bound listener: hand the next waiting client to a handler
AcceptConn ==
    /\ servePc = "accept"
    /\ ln = "open"
    /\ pending > 0
    /\ open < MaxConns
    /\ pending' = pending - 1
    /\ open' = open + 1
    /\ servePc' = IF limited THEN "acquire" ELSE "accept"
    /\ UNCHANGED <<serveResult, sem>>
    /\ UNCHANGED <<callVars, lnVars, ctxDone, taskVars, srvVars, envVars>>

\* Accept fails on its own (listener closed from outside, socket error):
\* Serve gives the slot back, closes the listener and returns the error.
ServeAcceptError ==
    /\ servePc = "accept"
    /\ ln = "open"
    /\ ~inShutdown
    /\ serveResult' = "ErrAccept"
    /\ ln' = "closed"
    /\ pending' = 0
    /\ sem' = IF limited THEN sem - 1 ELSE sem
    /\ tracked' = FALSE
    /\ servePc' = "send"
    /\ UNCHANGED <<limited, inShutdown, closeCalled, closeResult, open>>
    /\ UNCHANGED <<callVars, ctxDone, taskVars, envVars>>

\* the accept loop finds the listener closed by httpSrv.Close()
ServeClosed ==
    /\ servePc \in {"acquire", "accept"}
    /\ ln = "closed"
    /\ serveResult' = IF inShutdown THEN "ErrServerClosed" ELSE "ErrAccept"
    /\ sem' = IF servePc = "accept" /\ limited THEN sem - 1 ELSE sem
    /\ tracked' = FALSE
    /\ servePc' = "send"
    /\ UNCHANGED <<inShutdown, closeCalled, closeResult, pending, open>>
    /\ UNCHANGED <<callVars, lnVars, ctxDone, taskVars, envVars>>

\* ------------------------------------------------------------ clients

\* a client connects to the bound address and waits to be accepted
ClientConnect ==
    /\ ln = "open"
    /\ pending < MaxPending
    /\ pending' = pending + 1
    /\ UNCHANGED <<open, sem>>
    /\ UNCHANGED <<callVars, lnVars, ctxDone, taskVars, srvVars, serveVars, envVars>>

\* an accepted connection is closed; a limited listener gets its slot back
ConnClose ==
    /\ open > 0
    /\ open' = open - 1
    /\ sem' = IF limited THEN sem - 1 ELSE sem
    /\ UNCHANGED pending
    /\ UNCHANGED <<callVars, lnVars, ctxDone, taskVars, srvVars, serveVars, envVars>>

\* ------------------------------------------------------ specifications
Next ==
    \/ StartConnect
    \/ StartRegister
    \/ StartInstall
    \/ StartListen
    \/ StartGo
    \/ StartAgain
    \/ Cancel
    \/ TaskStart
    \/ TaskSelectCtx
    \/ TaskClose
    \/ TaskSelectErr
    \/ ServeEnter
    \/ AcceptAcquire
    \/ AcceptConn
    \/ ServeAcceptError
    \/ ServeClosed
    \/ ClientConnect
    \/ ConnClose

Spec == Init /\ [][Next]_vars

\* Go schedules every runnable goroutine: each step of StartJSONRPC, of the
\* lifecycle task and of the serve goroutine is taken once it stays
\* enabled.  The caller (Cancel, StartAgain), the clients and accept
\* failures are under no obligation.
Fairness ==
    /\ WF_vars(StartConnect \/ StartRegister \/ StartInstall \/ StartListen \/ StartGo)
    /\ WF_vars(TaskStart \/ TaskSelectCtx \/ TaskClose \/ TaskSelectErr)
    /\ WF_vars(ServeEnter \/ AcceptAcquire \/ AcceptConn \/ ServeClosed)

FairSpec == Init /\ [][Next]_vars /\ Fairness

TypeOK ==
    /\ cfgMaxOpen \in 0..MaxCap
    /\ calls \in 1..MaxStarts
    /\ prevTerminal \in BOOLEAN
    /\ startPc \in {"connect", "register", "install", "listen", "go", "returned"}
    /\ startResult \in {"none", "nil", "ErrConnect", "ErrRegister", "ErrBind"}
    /\ cometWsClient \in {"none", "nil", "unstarted", "running"}
    /\ apiIdx \in 0..NumApis
    /\ registered \in 0..NumApis
    /\ ln \in {"none", "open", "closed"}
    /\ taskPc \in {"none", "start", "select", "closing", "returned"}
    /\ taskBranch \in {"none", "ctx", "err"}
    /\ taskResult \in {"none", "nil", "ErrClose", "ErrAccept", "ErrServerClosed"}
    /\ closeResult \in {"none", "nil", "ErrClose"}
    /\ servePc \in {"none", "start", "acquire", "accept", "send", "done"}
    /\ serveResult \in {"none", "ErrAccept", "ErrServerClosed"}
    /\ pending \in 0..MaxPending
    /\ open \in 0..MaxConns
    /\ sem \in 0..MaxConns

\* ------------------------------------------------ what a call ran into
\* NewWS failed: ConnectCometWS returned nil
ConstructFailed == cometWsClient = "nil"
\* NewWS succeeded and OnStart failed
ClientStartFailed == cometWsClient = "unstarted"
\* the call is over and some entry of apis was not registered
RegisterFailed ==
    startPc = "returned" /\ cometWsClient \notin {"none", "nil"} /\ registered < NumApis
\* the call is over, got as far as listen, and holds no listener
BindFailed == startPc = "returned" /\ handlerInstalled /\ ln = "none"

\* ================================================================ C1
\* C1, as stated: whenever the context was cancelled while the server was
\* Running (it was cancelled when the select took its case), the task
\* returns the outcome of httpSrv.Close(), never the serve-loop error, and
\* the listener is closed once the task has returned.
C1_Original ==
    (taskPc = "returned" /\ ctxAtSelect) =>
        /\ taskBranch = "ctx"
        /\ taskResult = closeResult
        /\ ln = "closed"

\* C1, amended: with the context cancelled while Running, the task returns
\* the outcome of httpSrv.Close() (nil or the close error) when the select
\* takes the cancellation case; when the serve loop has already ended by
\* itself and offers its error, the select may take that case instead and
\* return that error (never ErrServerClosed); the listener is closed once
\* the task has returned and the serve goroutine has entered Serve.
C1_CancelResult ==
    (taskPc = "returned" /\ ctxAtSelect) =>
        /\ taskBranch = "ctx" =>
              /\ closeCalled
              /\ taskResult = closeResult
              /\ taskResult \in {"nil", "ErrClose"}
        /\ taskBranch = "err" =>
              /\ ~closeCalled
              /\ taskResult = serveResult
              /\ taskResult = "ErrAccept"
        /\ taskBranch \in {"ctx", "err"}
        /\ servePc # "start" => ln = "closed"

\* the context was cancelled while Running, the serve loop had ended by
\* itself, and the select took the errCh case
C1_Witness ==
    /\ taskPc = "returned"
    /\ ctxAtSelect
    /\ taskBranch = "err"
    /\ taskResult = "ErrAccept"
    /\ ln = "closed"

ServeGoroutineStep ==
    \/ ServeEnter
    \/ AcceptAcquire
    \/ AcceptConn
    \/ ServeAcceptError
    \/ ServeClosed
    \/ TaskSelectErr

\* C3, as stated: once the context is cancelled and the server closed, the
\* lifecycle task and the serve goroutine both terminate: with the task
\* returned, the serve goroutine has ended or can still take a step.
C3_Original ==
    (closeCalled /\ taskPc = "returned") =>
        (servePc = "done" \/ ENABLED ServeGoroutineStep)

\* the serve goroutine holds the result of Serve and waits to send it on
\* errCh, whose only receiver has returned
C3_Witness ==
    /\ closeCalled
    /\ taskPc = "returned"
    /\ servePc = "send"
    /\ serveResult = "ErrServerClosed"

\* ================================================================ C4
\* C4, as stated: when the context is cancelled with the task launched and
\* still waiting, the task closes the HTTP server before it returns,
\* whatever the serve loop has done.
C4_Original ==
    (taskPc = "returned" /\ ctxAtSelect) => closeCalled

\* C4, amended: once the context is cancelled with the task launched, the
\* task eventually returns to the errgroup and the listener is eventually
\* closed - by httpSrv.Close() on the cancellation case, or by Serve's own
\* exit when the serve loop has failed or when Close ran before Serve.
C4_CancelLeadsToReturn ==
    (ctxDone /\ taskPc # "none") ~> (taskPc = "returned" /\ ln = "closed")

\* the context is cancelled, the task has returned through the errCh case
\* and the listener is closed without any call of httpSrv.Close()
C4_Witness ==
    /\ ctxDone
    /\ taskPc = "returned"
    /\ taskBranch = "err"
    /\ ln = "closed"
    /\ ~closeCalled

\* ================================================================ C5
\* C5, as stated: a call that ran into a startup failure (client
\* construction, client start, registration, bind) returns a non-nil error.
C5_Original ==
    (startPc = "returned"
        /\ (ConstructFailed \/ ClientStartFailed \/ RegisterFailed \/ BindFailed))
    => startResult \in {"ErrConnect", "ErrRegister", "ErrBind"}

\* the client never started and StartJSONRPC returned nil
C5_Witness ==
    /\ startPc = "returned"
    /\ ClientStartFailed
    /\ startResult = "nil"

\* ================================================================ C6
\* C6, as stated: after a bind failure StartJSONRPC has returned the bind
\* error, no task and no serve goroutine exist, and nothing the call
\* started is left running.
C6_Original ==
    BindFailed =>
        /\ startResult = "ErrBind"
        /\ taskPc = "none"
        /\ servePc = "none"
        /\ cometWsClient # "running"

\* C6, amended: after a bind failure the server is FailedToStart,
\* StartJSONRPC has returned the bind error, no task was added to the
\* errgroup, no serve goroutine was started and no connection is open; the
\* upstream client the call created stays as it was (running if it had
\* started).
C6_BindFailure ==
    BindFailed =>
        /\ startResult = "ErrBind"
        /\ RunState = "FailedToStart"
        /\ taskPc = "none"
        /\ servePc = "none"
        /\ open = 0
        /\ ~tracked
        /\ cometWsClient \in {"unstarted", "running"}

\* a bind failure with the upstream client running
C6_Witness ==
    /\ BindFailed
    /\ startResult = "ErrBind"
    /\ cometWsClient = "running"

\* ================================================================ C7
\* C7: if registering an entry of apis fails, StartJSONRPC returns that
\* error with no handler installed, no listener bound and no task launched,
\* however many earlier entries were registered.
C7_RegistrationAborts ==
    RegisterFailed =>
        /\ startResult = "ErrRegister"
        /\ ~handlerInstalled
        /\ ln = "none"
        /\ taskPc = "none"
        /\ servePc = "none"

\* the third entry failed after two were registered
C7_Witness ==
    /\ RegisterFailed
    /\ registered = 2
    /\ startResult = "ErrRegister"

\* ================================================================ C8
\* the moves of ServerRunState the spec allows
AllowedMoves ==
    { <<"Initializing", "Listening">>,
      <<"Listening", "Running">>,
      <<"Running", "ShuttingDown">>,
      <<"ShuttingDown", "Stopped">>,
      <<"Initializing", "FailedToStart">>,
      <<"Running", "FailedToStart">> }

\* C8, as stated: a call of StartJSONRPC made after the server reached a
\* terminal state returns AlreadyStartedError.
C8_Original ==
    (prevTerminal /\ startPc = "returned") => startResult = "AlreadyStartedError"

\* C8, amended: within one call the run state only moves along
\* Initializing -> Listening -> Running -> ShuttingDown -> Stopped, or into
\* FailedToStart from a bind failure or a serve-loop failure, and Stopped
\* and FailedToStart are never left; StartJSONRPC keeps no record of
\* earlier calls, so a call made after a terminal state is not rejected: it
\* runs the startup again from Initializing.
C8_RunStateMoves ==
    [][ IF calls' # calls
        THEN RunState' = "Initializing" /\ startPc' = "connect"
        ELSE RunState' = RunState \/ <<RunState, RunState'>> \in AllowedMoves ]_vars

\* a second call, made after a terminal state, ran a server to Stopped
C8_Witness ==
    /\ prevTerminal
    /\ calls = 2
    /\ startResult = "nil"
    /\ RunState = "Stopped"

\* ================================================================ C9
\* C9: with a cap N > 0, at most N accepted connections are open at once;
\* with N open the accept loop is blocked taking a slot and no waiting
\* client is accepted; a waiting client leaves the backlog only by being
\* accepted or when the listener is closed; and with fewer than N open the
\* blocked accept can take its slot.
C9_Limit ==
    /\ [](cfgMaxOpen > 0 /\ ln # "none" =>
            /\ limited
            /\ open <= cfgMaxOpen
            /\ (open = cfgMaxOpen /\ servePc \in {"acquire", "accept"} =>
                    /\ servePc = "acquire"
                    /\ ~ENABLED AcceptAcquire
                    /\ ~ENABLED AcceptConn)
            /\ (open < cfgMaxOpen /\ servePc = "acquire" /\ ln = "open" =>
                    ENABLED AcceptAcquire))
    /\ [][(cfgMaxOpen > 0 /\ pending' < pending) =>
            \/ pending' = pending - 1 /\ open' = open + 1 /\ open < cfgMaxOpen
            \/ ln' # "open"]_vars

\* N connections are open, one more client waits, the accept loop is blocked
C9_Witness ==
    /\ cfgMaxOpen > 0
    /\ open = cfgMaxOpen
    /\ pending > 0
    /\ servePc = "acquire"
    /\ ln = "open"

\* ================================================================ C13
\* C13: cancelling the context and the cancellation case of the select
\* (lines 140-144) change nothing of the upstream client: it is after
\* httpSrv.Close() what it was before the cancellation.
C13_CancelKeepsClient ==
    [][ (calls' = calls /\ (ctxDone' # ctxDone \/ taskBranch' = "ctx"))
            => cometWsClient' = cometWsClient ]_vars

\* the server is Stopped after a cancellation and the client is running
C13_Witness ==
    /\ RunState = "Stopped"
    /\ closeCalled
    /\ cometWsClient = "running"

\* ================================================================ C14
\* C14, as stated: the steps run in the order connect, register, bind,
\* launch, and no later step is performed once an earlier one has failed:
\* nothing is registered without a client that was constructed and
\* connected, nothing is bound before all entries are registered, nothing
\* is launched without a listener.
C14_Original ==
    /\ (apiIdx > 0 \/ registered > 0) => cometWsClient \notin {"none", "nil"}
    /\ (handlerInstalled \/ ln # "none") => registered = NumApis
    /\ taskPc # "none" => (ln # "none" /\ handlerInstalled)
    /\ (ConstructFailed \/ ClientStartFailed) =>
            (registered = 0 /\ ~handlerInstalled /\ ln = "none" /\ taskPc = "none")
    /\ RegisterFailed => (~handlerInstalled /\ ln = "none" /\ taskPc = "none")
    /\ BindFailed => taskPc = "none"

\* the client never connected, and the task was launched all the same
C14_Witness ==
    /\ ClientStartFailed
    /\ registered = NumApis
    /\ ln = "open"
    /\ taskPc = "start"

\* ================================================================ C15
\* C15: with a cap of 0 the listener is not limited: the accept loop never
\* waits for a slot, and a waiting client can be accepted whatever the
\* number of connections already open (up to the number explored).
C15_Unlimited ==
    (cfgMaxOpen = 0 /\ ln # "none") =>
        /\ ~limited
        /\ sem = 0
        /\ servePc # "acquire"
        /\ (servePc = "accept" /\ ln = "open" /\ pending > 0 /\ open < MaxConns)
                => ENABLED AcceptConn

\* more connections are open than any cap explored, and the loop accepts on
C15_Witness ==
    /\ cfgMaxOpen = 0
    /\ open = MaxConns
    /\ servePc = "accept"
    /\ ln = "open"

\* ================================================================ C16
\* C16: a value arrives on errCh only from the serve goroutine, holding the
\* result of Serve, and at most once per server; the task's select takes
\* one case, never changes it, and the task returns once, with one result.
C16_OneSendOneWait ==
    /\ [](taskPc = "returned" => taskBranch \in {"ctx", "err"})
    /\ [](taskPc \in {"none", "start", "select"} => taskBranch = "none")
    /\ [][ calls' = calls =>
            /\ taskBranch # "none" => taskBranch' = taskBranch
            /\ taskPc = "returned" => (taskPc' = "returned" /\ taskResult' = taskResult)
            /\ servePc = "done" => servePc' = "done"
            /\ (taskBranch = "none" /\ taskBranch' # "none") => taskPc = "select"
            /\ (taskBranch = "none" /\ taskBranch' = "err") =>
                    /\ servePc = "send"
                    /\ servePc' = "done"
                    /\ taskResult' = serveResult
            /\ (servePc # "done" /\ servePc' = "done") =>
                    (taskBranch = "none" /\ taskBranch' = "err") ]_vars

\* the one value sent was received and the task returned it
C16_Witness ==
    /\ taskPc = "returned"
    /\ taskBranch = "err"
    /\ servePc = "done"
    /\ taskResult = serveResult

\* ================================================================ C17
\* C17: when StartJSONRPC fails at registration or at binding, the client
\* it created is left as it was, running if it had started; and no step of
\* a call, failing or not, changes the client once ConnectCometWS has
\* returned it.
C17_ClientNeverStopped ==
    /\ []((RegisterFailed \/ BindFailed) => cometWsClient \in {"unstarted", "running"})
    /\ [][ (calls' = calls /\ cometWsClient # "none")
                => cometWsClient' = cometWsClient ]_vars

\* registration failed on the second entry and the client is running
C17_Witness ==
    /\ RegisterFailed
    /\ registered = 1
    /\ cometWsClient = "running"

\* ================================================================ C18
\* C18: once the listener is bound StartJSONRPC returns nil, and it has
\* returned by the time the task exists: it does not wait for the serve
\* loop.  Its own result is only nil or a startup error and does not change
\* afterwards; the serve-loop error and the close error are results of the
\* task alone.
C18_ReturnsWithoutWaiting ==
    /\ [](startResult \in {"none", "nil", "ErrConnect", "ErrRegister", "ErrBind"})
    /\ []((startPc = "returned" /\ ln # "none") => startResult = "nil")
    /\ [](taskPc # "none" => (startPc = "returned" /\ startResult = "nil"))
    /\ [][ (calls' = calls /\ startPc = "returned")
                => (startPc' = "returned" /\ startResult' = startResult) ]_vars

\* the task ended with the close error; StartJSONRPC had returned nil
C18_Witness ==
    /\ startPc = "returned"
    /\ startResult = "nil"
    /\ taskPc = "returned"
    /\ taskResult = "ErrClose"

\* ================================================================ C19
\* C19: ConnectCometWS returns nil exactly when NewWS fails, so a client
\* whose OnStart failed passes the nil check: the call does not end with
\* the connect error and goes on to registration and binding.
C19_UnstartedClientPasses ==
    /\ \A newWSOk \in BOOLEAN, onStartOk \in BOOLEAN :
            (ConnectCometWS(newWSOk, onStartOk) = "nil") <=> ~newWSOk
    /\ startResult = "ErrConnect" <=> cometWsClient = "nil"
    /\ ClientStartFailed =>
            /\ startPc # "connect"
            /\ startResult \in {"none", "nil", "ErrRegister", "ErrBind"}

\* the listener is bound and StartJSONRPC has returned nil with a client
\* that never started
C19_Witness ==
    /\ ClientStartFailed
    /\ startPc = "returned"
    /\ startResult = "nil"
    /\ registered = NumApis
    /\ ln = "open"

====
